---- MODULE Spec2Model ----
(***************************************************************************)
(* CraftChain: the contribution endpoint (POST /api/projects/:id/contribute)*)
(* of server/routes/projects.js, the pure helpers of                       *)
(* server/utils/projectHelpers.js and the recipe resolver of               *)
(* server/utils/minecraft.js.                                              *)
(*                                                                         *)
(* Spec           : one project document, NumCalls concurrent contribute   *)
(*                  calls, each split at its awaits on the database.       *)
(* SpecHelpers    : the pure helpers applied to bounded item lists.        *)
(* SpecResolver   : buildDependencyList calls with the result cache and    *)
(*                  the clock, over bounded knowledge bases.               *)
(* SpecRecipeTree : buildRecipeTree over bounded knowledge bases.          *)
(***************************************************************************)
EXTENDS Integers, Sequences, FiniteSets, TLC

VARIABLES
    items,                  \* project.items (array of item subdocuments)
    contributions,          \* project.contributions (append-only log)
    events,                 \* project.events (activity feed)
    planVersions,           \* project.planVersions (snapshots of replaced plans)
    transactionsAvailable,  \* TRUE on a replica set, FALSE on single-node MongoDB
    pc,                     \* position of each contribute call
    req,                    \* req.body of each call: itemName, quantity
    loc,                    \* the handler's local variables of each call
    resp,                   \* the response of each call
    wrote,                  \* history: the call's update has been applied to the document
    hIn,                    \* SpecHelpers: the project handed to the helpers
    hOut,                   \* SpecHelpers: what the helpers returned
    hpc,                    \* SpecHelpers: position
    heap,                   \* SpecHelpers: the item objects, by address
    mcData,                 \* minecraft.js: the recipes of the knowledge base, by item id
    disabled,               \* minecraft.js: true until initMinecraft succeeds
    cache,                  \* minecraft.js: the result cache, in insertion order
    now,                    \* Date.now()
    ncalls,                 \* number of buildDependencyList calls made
    mOut                    \* the last resolver call and what it returned

vars == <<items, contributions, events, planVersions, transactionsAvailable, pc, req, loc,
          resp, wrote, hIn, hOut, hpc, heap, mcData, disabled, cache, now,
          ncalls, mOut>>

docVars == <<items, contributions, events>>
helperVars == <<hIn, hOut, hpc, heap>>
recipeVars == <<mcData, disabled, cache, now, ncalls, mOut>>

----------------------------------------------------------------------------
(* Bounds *)

NumCalls == 2
MaxQty == 2
MaxRequired == 2

\* the largest topN handed to detectBottlenecks
MaxTopN == 3

\* the resolver: calls of buildDependencyList in one behaviour, steps of the
\* clock, and the number of expand() calls the model follows one inside
\* the other
MaxResolverCalls == 2
MaxTicks == 1
MaxExpandDepth == 7

\* calls of buildDependencyList in a behaviour that fills the cache
MaxCacheCalls == 5

\* plan snapshots kept by one project
MaxPlanVersions == 2

EVENT_CAP == 200

\* options.maxNodes when the caller gives none
DEFAULT_MAX_NODES == 200

Calls == 1..NumCalls

----------------------------------------------------------------------------
(* Strings.  toLowerCase().trim() over the strings the model uses. *)

LowerTrim(s) ==
    CASE s = "Cobblestone"  -> "cobblestone"
      [] s = "COBBLESTONE " -> "cobblestone"
      [] s = "Iron_Ingot"   -> "iron_ingot"
      [] s = " IRON_INGOT"  -> "iron_ingot"
      [] s = "Ghost"        -> "ghost"
      [] s = "Nope "        -> "nope"
      [] s = "  "           -> ""
      [] s = "Diamond_Sword " -> "diamond_sword"
      [] s = "Unknown_Item" -> "unknown_item"
      [] s = " cobblestone " -> "cobblestone"
      [] OTHER              -> s

Trim(s) ==
    CASE s = "COBBLESTONE " -> "COBBLESTONE"
      [] s = " IRON_INGOT"  -> "IRON_INGOT"
      [] s = "Nope "        -> "Nope"
      [] s = "  "           -> ""
      [] s = " cobblestone " -> "cobblestone"
      [] OTHER              -> s

Min(a, b) == IF a <= b THEN a ELSE b

Indices(s) == 1..Len(s)

\* Array.prototype.find / findIndex: the first index whose element has its
\* index in the set S, 0 when there is none.
FirstIn(S) == IF S = {} THEN 0 ELSE CHOOSE i \in S : \A j \in S : i <= j

----------------------------------------------------------------------------
(* projectHelpers.js *)

\* (item.quantityCollected || 0) >= (item.quantityRequired || 0)
IsComplete(item) == item.quantityCollected >= item.quantityRequired

\* completedSet: lowercased, trimmed names of the completed items
CompletedSet(its) ==
    { LowerTrim(its[i].name) : i \in { j \in Indices(its) : IsComplete(its[j]) } }

\* items.find((i) => i.name.toLowerCase().trim() === normalised)
FindItem(its, normalised) ==
    FirstIn({ i \in Indices(its) : LowerTrim(its[i].name) = normalised })

\* mutant: a name that is no item of the project counts as met
DepUnmet_Mut(its, dep) ==
    \E j \in Indices(its) : LowerTrim(its[j].name) = LowerTrim(dep) /\ ~IsComplete(its[j])

\* !completedSet.has(dep.toLowerCase().trim())
DepUnmet(its, dep) == LowerTrim(dep) \notin CompletedSet(its)

\* mutant: the dependency name is looked up as written, not lowercased and
\* trimmed
getUnmetDependencies_Mut(its, itemName) ==
    LET t == FindItem(its, LowerTrim(itemName))
    IN  IF t = 0 \/ its[t].dependencies = <<>>
        THEN <<>>
        ELSE SelectSeq(its[t].dependencies, LAMBDA dep : dep \notin CompletedSet(its))

getUnmetDependencies(its, itemName) ==
    LET t == FindItem(its, LowerTrim(itemName))
    IN  IF t = 0 \/ its[t].dependencies = <<>>
        THEN <<>>
        ELSE SelectSeq(its[t].dependencies, LAMBDA dep : DepUnmet(its, dep))

\* mutant: completed only when collected exceeds required
ItemStatus_Mut(its, item) ==
    IF item.quantityCollected > item.quantityRequired THEN "completed"
    ELSE IF Len(item.dependencies) > 0
            /\ \E k \in Indices(item.dependencies) : DepUnmet(its, item.dependencies[k])
         THEN "blocked"
         ELSE "pending"

ItemStatus(its, item) ==
    IF IsComplete(item) THEN "completed"
    ELSE IF Len(item.dependencies) > 0
            /\ \E k \in Indices(item.dependencies) : DepUnmet(its, item.dependencies[k])
         THEN "blocked"
         ELSE "pending"

computeItemStatuses(its) ==
    [ i \in Indices(its) |-> [ its[i] EXCEPT !.status = ItemStatus(its, its[i]) ] ]

\* The same function on objects.  h is the object store (address -> item
\* object); an items array is a sequence of addresses.  The array handed in
\* holds the objects at addresses 1..n.
InputRefs(its) == [ i \in Indices(its) |-> i ]

Deref(h, refs) == [ i \in Indices(refs) |-> h[refs[i]] ]

\* mutant: no copies are made, the array of the input objects is returned
_cloneItems_Mut(h, refs) == [ heap |-> h, refs |-> refs ]

\* items.map(item => ({ ...plain, dependencies: [...plain.dependencies] })):
\* one new object per item, holding a copy of every field
_cloneItems(h, refs) ==
    [ heap |-> h \o Deref(h, refs),
      refs |-> [ i \in Indices(refs) |-> Len(h) + i ] ]

\* step 2 of computeItemStatuses: item.status = ... on every object of
\* clonedItems, the completed set being read from those same objects
AssignStatuses(h, refs) ==
    LET its == Deref(h, refs)
    IN  [ a \in DOMAIN h |->
            IF \E i \in Indices(refs) : refs[i] = a
            THEN [ h[a] EXCEPT !.status = ItemStatus(its, h[a]) ]
            ELSE h[a] ]

\* computeProgress.  Math.round(x): the integer nearest to x, a half going up.
\* x = (totalCollected / totalRequired) * 1000 is kept as the fraction
\* 1000 * totalCollected / totalRequired.
RoundPerMille(totalCollected, totalRequired) ==
    (2000 * totalCollected + totalRequired) \div (2 * totalRequired)

RECURSIVE TotalRequired(_)
TotalRequired(its) ==
    IF its = <<>> THEN 0 ELSE Head(its).quantityRequired + TotalRequired(Tail(its))

\* mutant: what was collected beyond the required quantity is discarded
\* together with the rest of that item
CappedCollected_Mut(item) ==
    IF item.quantityCollected > item.quantityRequired THEN 0 ELSE item.quantityCollected

\* Math.min(col, req)
CappedCollected(item) == Min(item.quantityCollected, item.quantityRequired)

RECURSIVE TotalCollected(_)
TotalCollected(its) ==
    IF its = <<>> THEN 0 ELSE CappedCollected(Head(its)) + TotalCollected(Tail(its))

\* percent is held in tenths of a percent: the code's value is this integer
\* divided by 10
computeProgress(its) ==
    LET totalRequired  == TotalRequired(its)
        totalCollected == TotalCollected(its)
    IN  [ totalRequired  |-> totalRequired,
          totalCollected |-> totalCollected,
          percent        |-> IF totalRequired > 0
                             THEN RoundPerMille(totalCollected, totalRequired)
                             ELSE 0 ]

\* detectBottlenecks.  dependedOnBy.get(key) || 0: one for every entry of every
\* item's dependencies whose lowercased, trimmed text is key
DependedOnBy(its, key) ==
    Cardinality({ ik \in UNION { { <<i, k>> : k \in Indices(its[i].dependencies) }
                                 : i \in Indices(its) }
                    : LowerTrim(its[ik[1]].dependencies[ik[2]]) = key })

BottleneckEntry(its, item) ==
    [ name          |-> item.name,
      blockingCount |-> DependedOnBy(its, LowerTrim(item.name)),
      remaining     |-> item.quantityRequired - item.quantityCollected ]

\* mutant: completed items are not skipped
Candidates_Mut(its) ==
    [ i \in Indices(its) |-> BottleneckEntry(its, its[i]) ]

\* the candidates, in the order of the items: completed items are skipped
Candidates(its) ==
    LET keep == SelectSeq(its, LAMBDA item : ~IsComplete(item))
    IN  [ i \in Indices(keep) |-> BottleneckEntry(its, keep[i]) ]

\* mutant: the comparator looks at blockingCount only
Compare_Mut(a, b) == b.blockingCount - a.blockingCount

\* the comparator of candidates.sort: negative when a goes before b
Compare(a, b) ==
    IF b.blockingCount # a.blockingCount
    THEN b.blockingCount - a.blockingCount
    ELSE b.remaining - a.remaining

\* Array.prototype.sort is stable: x goes after every entry it does not
\* go before
Insert(sorted, x) ==
    LET pos == FirstIn({ i \in Indices(sorted) : Compare(x, sorted[i]) < 0 })
    IN  IF pos = 0
        THEN Append(sorted, x)
        ELSE SubSeq(sorted, 1, pos - 1) \o <<x>> \o SubSeq(sorted, pos, Len(sorted))

RECURSIVE Sort(_)
Sort(s) == IF s = <<>> THEN <<>> ELSE Insert(Sort(SubSeq(s, 1, Len(s) - 1)), s[Len(s)])

\* candidates.slice(0, topN), topN a count
Slice(s, topN) == SubSeq(s, 1, Min(topN, Len(s)))

detectBottlenecks(its, topN) == Slice(Sort(Candidates(its)), topN)

----------------------------------------------------------------------------
(* The stored project: POST /api/projects builds the items with           *)
(* sanitizeItems (quantityCollected 0), sets the stored statuses with     *)
(* computeItemStatuses and pushes a "create" event.                       *)

ItemNames == <<"Cobblestone", "Iron_Ingot">>

\* the dependency lists each item of the plan may be given
DepChoices ==
    << { <<>> },
       { <<>>, <<"COBBLESTONE ">>, <<"COBBLESTONE ", "Ghost">> } >>

sanitizeItems(raw) ==
    [ i \in Indices(raw) |->
        [ id |-> i,
          name |-> Trim(raw[i].name),
          quantityRequired |-> raw[i].quantityRequired,
          quantityCollected |-> 0,
          dependencies |-> raw[i].dependencies,
          status |-> "pending" ] ]

\* the plans: the first n item names, each with a required quantity and one
\* of its dependency lists
RawPlans ==
    UNION { { [ i \in 1..n |->
                  [ name |-> ItemNames[i], quantityRequired |-> r[i], dependencies |-> d[i] ] ]
              : r \in [1..n -> 1..MaxRequired],
                d \in { f \in [1..n -> UNION { DepChoices[i] : i \in 1..n }]
                           : \A i \in 1..n : f[i] \in DepChoices[i] } }
            : n \in Indices(ItemNames) }

CreateProject(raw) == computeItemStatuses(sanitizeItems(raw))

----------------------------------------------------------------------------
(* POST /:id/contribute *)

\* req.body: the valid requests, with the smallest and the largest quantity,
\* and one request for each way to be refused before the item is looked at
Requests ==
    { [itemName |-> n, quantity |-> q] : n \in {"Cobblestone", " IRON_INGOT"}, q \in {1, MaxQty} }
    \cup { [itemName |-> "  ", quantity |-> 1],
           [itemName |-> "Cobblestone", quantity |-> 0],
           [itemName |-> "Nope ", quantity |-> 1] }

NoLoc ==
    [ targetId |-> 0, targetName |-> "", targetRequired |-> 0,
      acceptedQuantity |-> 0, contributionQty |-> 0, completedEvent |-> FALSE,
      freshId |-> 0, freshAccepted |-> 0, snapVersion |-> 0 ]

NoResp ==
    [ outcome |-> "none", acceptedQuantity |-> -1, remainderRequested |-> -1,
      remaining |-> -1, unmetDependencies |-> <<>> ]

Reject(outcome) == [ NoResp EXCEPT !.outcome = outcome ]

\* 409 "Item already fully collected."
AlreadyComplete ==
    [ NoResp EXCEPT !.outcome = "already_complete", !.acceptedQuantity = 0, !.remaining = 0 ]

\* "items._id": id  --  the index of the subdocument with that _id, 0 if none
IndexOfId(its, id) == FirstIn({ i \in Indices(its) : its[i].id = id })

\* const acceptedQuantity = Math.min(parsedQty, remaining)
AcceptedQuantity(parsedQty, remaining) == Min(parsedQty, remaining)

\* if (remaining <= 0): 409 on the initial read
InitialComplete(remaining) == remaining <= 0

\* mutant: the fresh check lets an exactly complete item through
FreshComplete_Mut(freshRemaining) == freshRemaining < 0

\* if (freshRemaining <= 0): abort and 409 on the fresh read
FreshComplete(freshRemaining) == freshRemaining <= 0

\* recheckItem && recheckItem.quantityCollected >= recheckItem.quantityRequired
RecheckComplete(its, r) == r # 0 /\ its[r].quantityCollected >= its[r].quantityRequired

\* const freshAccepted = Math.min(parsedQty, freshRemaining)
FreshAccepted(parsedQty, freshRemaining) == Min(parsedQty, freshRemaining)

\* !wasCompletedBefore && willBeCompleted, on the initial read
WillAddCompleted(item, accepted) ==
    /\ ~ (item.quantityCollected >= item.quantityRequired)
    /\ item.quantityCollected + accepted >= item.quantityRequired

\* the item_completed event is in eventsToAdd after the fresh re-read:
\* removed if freshWasComplete || !freshWillComplete, added otherwise
FreshAddCompleted(freshItem, freshAccepted) ==
    /\ ~ (freshItem.quantityCollected >= freshItem.quantityRequired)
    /\ freshItem.quantityCollected + freshAccepted >= freshItem.quantityRequired

ContributionEvent(name, qty) == [ type |-> "contribution", itemName |-> name, quantity |-> qty ]
CompletedEvent(name) == [ type |-> "item_completed", itemName |-> name, quantity |-> 0 ]
CreateEvent == [ type |-> "create", itemName |-> "", quantity |-> 0 ]

EventsToAdd(name, qty, completed) ==
    <<ContributionEvent(name, qty)>> \o (IF completed THEN <<CompletedEvent(name)>> ELSE <<>>)

ContributionRecord(name, qty) == [ itemName |-> name, quantity |-> qty ]

\* $inc: { "items.$.quantityCollected": qty } at the matched position
IncCollected(its, idx, qty) ==
    [ its EXCEPT ![idx].quantityCollected = @ + qty ]

\* events.slice(-EVENT_CAP) when the feed has outgrown the cap
TrimEvents(ev) ==
    IF Len(ev) > EVENT_CAP THEN SubSeq(ev, Len(ev) - EVENT_CAP + 1, Len(ev)) ELSE ev

\* The filter of the fallback findOneAndUpdate: two separate conditions on
\* the items array (no $elemMatch), each satisfiable by a different element.
FallbackFilter(its, targetId, targetRequired) ==
    /\ \E i \in Indices(its) : its[i].id = targetId
    /\ \E i \in Indices(its) : its[i].quantityCollected < targetRequired

\* The positional "$" of an update whose filter has two conditions on the same
\* array is the index matched by one of them; which one is not specified.
PositionalCandidates(its, targetId, targetRequired) ==
    { IndexOfId(its, targetId),
      FirstIn({ i \in Indices(its) : its[i].quantityCollected < targetRequired }) }

\* res.json({ success: true, acceptedQuantity, remainderRequested, remaining })
\* computed from updatedProject
SuccessResp(updated, itemName, parsedQty, finalAccepted) ==
    LET f == FindItem(updated, LowerTrim(itemName))
    IN  [ NoResp EXCEPT
            !.outcome = "success",
            !.acceptedQuantity = finalAccepted,
            !.remainderRequested = parsedQty - finalAccepted,
            !.remaining = IF f = 0 THEN 0
                          ELSE updated[f].quantityRequired - updated[f].quantityCollected ]

Finish(p, r) ==
    /\ pc' = [pc EXCEPT ![p] = "done"]
    /\ resp' = [resp EXCEPT ![p] = r]

\* Steps 1-9: validation, initial read, item lookup, dependency check,
\* accepted quantity, contribution record and events.  The calls are numbered
\* in the order the requests arrive.
Start(p, itemName, quantity) ==
    /\ pc[p] = "idle"
    /\ \A o \in Calls : o < p => pc[o] # "idle"
    /\ req' = [req EXCEPT ![p] = [itemName |-> itemName, quantity |-> quantity]]
    /\ UNCHANGED <<docVars, transactionsAvailable, planVersions, wrote, helperVars, recipeVars>>
    /\ LET normalisedName == LowerTrim(itemName)
           t == FindItem(items, normalisedName)
       IN  IF Trim(itemName) = "" \/ quantity < 1
           THEN Finish(p, Reject("validation")) /\ UNCHANGED loc
           ELSE IF t = 0
           THEN Finish(p, Reject("not_found")) /\ UNCHANGED loc
           ELSE LET targetItem == items[t]
                    unmet == getUnmetDependencies(items, targetItem.name)
                    remaining == targetItem.quantityRequired - targetItem.quantityCollected
                    accepted == AcceptedQuantity(quantity, remaining)
                IN  IF Len(unmet) > 0
                    THEN Finish(p, [Reject("unmet") EXCEPT !.unmetDependencies = unmet])
                         /\ UNCHANGED loc
                    ELSE IF InitialComplete(remaining)
                    THEN Finish(p, AlreadyComplete) /\ UNCHANGED loc
                    ELSE /\ loc' = [loc EXCEPT ![p] =
                                 [ NoLoc EXCEPT
                                     !.targetId = targetItem.id,
                                     !.targetName = targetItem.name,
                                     !.targetRequired = targetItem.quantityRequired,
                                     !.acceptedQuantity = accepted,
                                     !.contributionQty = accepted,
                                     !.completedEvent = WillAddCompleted(targetItem, accepted) ]]
                         /\ pc' = [pc EXCEPT ![p] = "tx"]
                         /\ UNCHANGED resp

\* Step 10a up to the update: startSession, startTransaction and the fresh
\* read in the session.  On single-node MongoDB the first operation of the
\* transaction throws and the handler goes to the fallback.
TxRead(p) ==
    /\ pc[p] = "tx"
    /\ UNCHANGED <<docVars, transactionsAvailable, planVersions, req, wrote, helperVars, recipeVars>>
    /\ IF ~ transactionsAvailable
       THEN /\ pc' = [pc EXCEPT ![p] = "fallback"]
            /\ UNCHANGED <<loc, resp>>
       ELSE LET f == FindItem(items, LowerTrim(req[p].itemName))
            IN  IF f = 0
                THEN Finish(p, Reject("not_found")) /\ UNCHANGED loc
                ELSE LET freshItem == items[f]
                         freshRemaining == freshItem.quantityRequired - freshItem.quantityCollected
                         freshAccepted == FreshAccepted(req[p].quantity, freshRemaining)
                     IN  IF FreshComplete(freshRemaining)
                         THEN Finish(p, AlreadyComplete) /\ UNCHANGED loc
                         ELSE /\ loc' = [loc EXCEPT ![p] =
                                      [ @ EXCEPT
                                          !.freshId = freshItem.id,
                                          !.freshAccepted = freshAccepted,
                                          !.contributionQty = freshAccepted,
                                          !.completedEvent = FreshAddCompleted(freshItem, freshAccepted),
                                          !.snapVersion = Len(contributions) ]]
                              /\ pc' = [pc EXCEPT ![p] = "txwrite"]
                              /\ UNCHANGED resp

\* Project.updateOne in the session, then commitTransaction.  The document
\* was modified since the transaction's snapshot: the update throws a write
\* conflict, the transaction is aborted and the handler goes to the fallback.
TxWrite(p) ==
    /\ pc[p] = "txwrite"
    /\ UNCHANGED <<transactionsAvailable, planVersions, req, loc, helperVars, recipeVars>>
    /\ IF Len(contributions) # loc[p].snapVersion
       THEN /\ pc' = [pc EXCEPT ![p] = "fallback"]
            /\ UNCHANGED <<docVars, resp, wrote>>
       ELSE LET idx == IndexOfId(items, loc[p].freshId)
            IN  IF idx = 0
                THEN \* result.modifiedCount === 0
                     /\ Finish(p, Reject("failed_update"))
                     /\ UNCHANGED <<docVars, wrote>>
                ELSE /\ items' = IncCollected(items, idx, loc[p].freshAccepted)
                     /\ contributions' = Append(contributions,
                            ContributionRecord(loc[p].targetName, loc[p].contributionQty))
                     /\ events' = events \o EventsToAdd(loc[p].targetName,
                                      loc[p].freshAccepted, loc[p].completedEvent)
                     /\ wrote' = [wrote EXCEPT ![p] = TRUE]
                     /\ pc' = [pc EXCEPT ![p] = "postcommit"]
                     /\ UNCHANGED resp

\* mutant: no usedTransaction guard, a failed read after the commit falls
\* through to the fallback write
PostCommit_Mut(p, readOk) ==
    /\ pc[p] = "postcommit"
    /\ UNCHANGED <<items, contributions, transactionsAvailable, planVersions, req, loc, wrote, helperVars, recipeVars>>
    /\ IF readOk
       THEN /\ events' = TrimEvents(events)
            /\ Finish(p, SuccessResp(items, req[p].itemName, req[p].quantity,
                                     loc[p].contributionQty))
       ELSE /\ UNCHANGED <<events, resp>>
            /\ pc' = [pc EXCEPT ![p] = "fallback"]

\* The read after the commit, the trimming of the feed and the response; a
\* failure of the read is answered with 500 "Server error." (usedTransaction).
PostCommit(p, readOk) ==
    /\ pc[p] = "postcommit"
    /\ UNCHANGED <<items, contributions, transactionsAvailable, planVersions, req, loc, wrote, helperVars, recipeVars>>
    /\ IF readOk
       THEN /\ events' = TrimEvents(events)
            /\ Finish(p, SuccessResp(items, req[p].itemName, req[p].quantity,
                                     loc[p].contributionQty))
       ELSE /\ UNCHANGED events
            /\ Finish(p, Reject("server_error"))

\* Step 10b: the conditional findOneAndUpdate, with the quantities of the
\* initial read; on a match the feed is trimmed and the response is built
\* from the returned document.
Fallback(p) ==
    /\ pc[p] = "fallback"
    /\ UNCHANGED <<transactionsAvailable, planVersions, req, helperVars, recipeVars>>
    /\ loc' = [loc EXCEPT ![p].contributionQty = loc[p].acceptedQuantity]
    /\ IF FallbackFilter(items, loc[p].targetId, loc[p].targetRequired)
       THEN \E idx \in PositionalCandidates(items, loc[p].targetId, loc[p].targetRequired) :
            /\ items' = IncCollected(items, idx, loc[p].acceptedQuantity)
            /\ contributions' = Append(contributions,
                   ContributionRecord(loc[p].targetName, loc[p].acceptedQuantity))
            /\ events' = TrimEvents(events \o EventsToAdd(loc[p].targetName,
                             loc[p].acceptedQuantity, loc[p].completedEvent))
            /\ wrote' = [wrote EXCEPT ![p] = TRUE]
            /\ Finish(p, SuccessResp(items', req[p].itemName, req[p].quantity,
                                     loc[p].acceptedQuantity))
       ELSE /\ pc' = [pc EXCEPT ![p] = "recheck"]
            /\ UNCHANGED <<docVars, resp, wrote>>

\* findOneAndUpdate returned null: re-read to tell "already complete" from
\* a failed update.
Recheck(p) ==
    /\ pc[p] = "recheck"
    /\ UNCHANGED <<docVars, transactionsAvailable, planVersions, req, loc, wrote, helperVars, recipeVars>>
    /\ LET r == FindItem(items, LowerTrim(req[p].itemName))
       IN  IF RecheckComplete(items, r)
           THEN Finish(p, AlreadyComplete)
           ELSE Finish(p, Reject("failed_update"))

----------------------------------------------------------------------------

----------------------------------------------------------------------------
(* utils/minecraft.js: the recipe resolver *)

CACHE_TTL_MS == 5 * 60 * 1000

\* 500 in the source; scaled down so that the keys of the model can fill
\* the cache
CACHE_MAX_ENTRIES == 3

\* mcData.items / mcData.itemsByName: the item of id i has the name
\* McItemNames[i]
McItemNames == <<"diamond_sword", "stick", "diamond", "netherite_sword", "netherite_ingot">>

\* mcData.itemsByName[name], 0 when undefined
ItemsByName(name) == FirstIn({ i \in Indices(McItemNames) : McItemNames[i] = name })

\* SMITHING_RECIPES[key], <<>> when undefined
SMITHING_RECIPES(key) ==
    IF key = "netherite_sword"
    THEN << [ name |-> "diamond_sword", quantity |-> 1 ],
            [ name |-> "netherite_ingot", quantity |-> 1 ] >>
    ELSE <<>>

\* a recipe of minecraft-data: shaped (inShape, the grid row by row) or
\* shapeless (ingredients); a cell is an item id, 0 for an empty slot;
\* count is result.count
Recipe(shaped, cells, count) == [ shaped |-> shaped, cells |-> cells, count |-> count ]

\* the recipe lists an item may have in a knowledge base
RecipeChoices ==
    << \* diamond_sword: a shapeless and a shaped variant; a grid of empty
       \* slots; none
       { << Recipe(FALSE, <<3, 2>>, 1), Recipe(TRUE, <<3, 3, 2>>, 1) >>,
         << Recipe(TRUE, <<0, 0>>, 1) >>,
         <<>> },
       \* stick: from diamonds; from a diamond_sword (a cycle); none; a
       \* recipe that yields 4
       { << Recipe(TRUE, <<3, 3>>, 1) >>,
         << Recipe(TRUE, <<1>>, 1) >>,
         <<>>,
         << Recipe(TRUE, <<3, 3>>, 4) >> },
       \* diamond: none; from sticks (a cycle); from itself
       { <<>>,
         << Recipe(FALSE, <<2, 2>>, 1) >>,
         << Recipe(FALSE, <<3>>, 1) >> },
       \* netherite_sword, netherite_ingot: no crafting-table recipe
       { <<>> },
       { <<>> } >>

KnowledgeBases ==
    { kb \in [ Indices(McItemNames) -> UNION { RecipeChoices[i] : i \in Indices(McItemNames) } ]
        : \A i \in Indices(McItemNames) : kb[i] \in RecipeChoices[i] }

\* recipes.find(r => r && r.inShape && Array.isArray(r.inShape)) || recipes[0]
pickBestRecipe(recipes) ==
    LET shaped == FirstIn({ i \in Indices(recipes) : recipes[i].shaped })
    IN  IF shaped # 0 THEN recipes[shaped] ELSE recipes[1]

\* the counts map of normaliseIngredients: one entry per id, in the order of
\* first occurrence
RECURSIVE CountCells(_, _)
CountCells(cells, counts) ==
    IF cells = <<>> THEN counts
    ELSE LET id  == Head(cells)
             pos == FirstIn({ i \in Indices(counts) : counts[i].id = id })
         IN  CountCells(Tail(cells),
                 IF id <= 0 THEN counts
                 ELSE IF pos = 0 THEN Append(counts, [ id |-> id, quantity |-> 1 ])
                 ELSE [ counts EXCEPT ![pos].quantity = @ + 1 ])

\* every id of the model's recipes is an item of mcData.items
normaliseIngredients(recipe) ==
    LET counts == CountCells(recipe.cells, <<>>)
    IN  [ i \in Indices(counts) |->
            [ id |-> counts[i].id, name |-> McItemNames[counts[i].id],
              quantity |-> counts[i].quantity ] ]

\* SMITHING_RECIPES[key].map(ing => ({ id, name, quantity }))
SmithingIngredients(key) ==
    LET sm == SMITHING_RECIPES(key)
    IN  [ i \in Indices(sm) |->
            [ id |-> ItemsByName(sm[i].name), name |-> sm[i].name, quantity |-> sm[i].quantity ] ]

\* ---- buildDependencyList ----

\* what buildDependencyList returns: null, or an array with its truncated
\* expando
ListResult(list, truncated) == [ isNull |-> FALSE, list |-> list, truncated |-> truncated ]

\* mutant: an empty list stands in for null
Null_Mut == ListResult(<<>>, FALSE)

Null == [ isNull |-> TRUE, list |-> <<>>, truncated |-> FALSE ]

QueueEntries(ingredients, parentName, depth) ==
    [ i \in Indices(ingredients) |->
        [ id |-> ingredients[i].id, name |-> ingredients[i].name,
          quantity |-> ingredients[i].quantity, parentName |-> parentName, depth |-> depth ] ]

\* mutant: an ingredient is raw whatever recipes it has
IsRaw_Mut(kb, nodeNameLower) == TRUE

\* isRaw: the ingredient is no item, or an item with neither a recipe nor a
\* smithing recipe
IsRaw(kb, nodeNameLower) ==
    LET nodeItem == ItemsByName(nodeNameLower)
    IN  ~(nodeItem # 0 /\ (kb[nodeItem] # <<>> \/ SMITHING_RECIPES(nodeNameLower) # <<>>))

\* mutant: the loop does not look at the budget
BudgetReached_Mut(nodesVisited, maxNodes) == FALSE

\* nodesVisited >= maxNodes
BudgetReached(nodesVisited, maxNodes) == nodesVisited >= maxNodes

\* the while loop of the BFS, one iteration per call.  visits is the history
\* of the loop: the nodes taken from the queue, in order, each with its depth
\* and whether its ingredients were queued
RECURSIVE Bfs(_, _, _, _, _, _, _)
Bfs(kb, queue, aggregated, visits, truncated, depthLimit, maxNodes) ==
    IF queue = <<>> THEN [ result |-> ListResult(aggregated, truncated), visits |-> visits ]
    ELSE IF BudgetReached(Len(visits), maxNodes)
    THEN [ result |-> ListResult(aggregated, TRUE), visits |-> visits ]
    ELSE
      LET node          == Head(queue)
          visited       == Len(visits) + 1
          nodeNameLower == node.name
          nodeItem      == ItemsByName(nodeNameLower)
          nodeRecipes   == IF nodeItem # 0 THEN kb[nodeItem] ELSE <<>>
          hasRecipe     == nodeRecipes # <<>>
          isRaw         == IsRaw(kb, nodeNameLower)
          pos           == FirstIn({ i \in Indices(aggregated) : aggregated[i].name = nodeNameLower })
          agg           == IF pos # 0
                           THEN [ aggregated EXCEPT
                                    ![pos].quantityRequired = @ + node.quantity,
                                    ![pos].raw = IF isRaw THEN @ ELSE FALSE ]
                           ELSE Append(aggregated,
                                    [ name |-> node.name, id |-> node.id,
                                      quantityRequired |-> node.quantity, raw |-> isRaw,
                                      fromRecipeOf |-> node.parentName ])
          children      == IF hasRecipe /\ node.depth < depthLimit
                           THEN normaliseIngredients(pickBestRecipe(nodeRecipes))
                           ELSE <<>>
          scaled        == [ i \in Indices(children) |->
                               [ children[i] EXCEPT !.quantity = @ * node.quantity ] ]
          budgetHit     == children # <<>> /\ BudgetReached(visited, maxNodes)
          visit         == [ name |-> nodeNameLower, depth |-> node.depth,
                             expanded |-> children # <<>> /\ ~budgetHit ]
      IN  Bfs(kb,
              IF budgetHit THEN Tail(queue)
              ELSE Tail(queue) \o QueueEntries(scaled, nodeNameLower, node.depth + 1),
              agg, Append(visits, visit), truncated \/ budgetHit, depthLimit, maxNodes)

\* the body of buildDependencyList after the cache lookup, with the history
\* of its loop
Resolve(kb, finalItem, depthLimit, maxNodes) ==
    LET finalNameLower == LowerTrim(finalItem)
        finalItemObj   == ItemsByName(finalNameLower)
        finalRecipes   == kb[finalItemObj]
        hasSmithing    == SMITHING_RECIPES(finalNameLower)
        seedIngredients == IF finalRecipes # <<>>
                           THEN normaliseIngredients(pickBestRecipe(finalRecipes))
                           ELSE SmithingIngredients(finalNameLower)
        budgetHit      == seedIngredients # <<>> /\ BudgetReached(0, maxNodes)
    IN  IF finalItemObj = 0 THEN [ result |-> Null, visits |-> <<>> ]
        ELSE IF finalRecipes = <<>> /\ hasSmithing = <<>> THEN [ result |-> Null, visits |-> <<>> ]
        ELSE Bfs(kb,
                 IF budgetHit THEN <<>> ELSE QueueEntries(seedIngredients, finalNameLower, 0),
                 <<>>, <<>>, budgetHit, depthLimit, maxNodes)

\* what the body returns
ResolveList(kb, finalItem, depthLimit, maxNodes) ==
    Resolve(kb, finalItem, depthLimit, maxNodes).result

\* `${String(finalItem).toLowerCase().trim()}|${depthLimit}`
CacheKey(finalItem, depthLimit) == <<LowerTrim(finalItem), depthLimit>>

\* cache.get(cacheKey): the position of the entry, 0 when there is none
CacheGet(c, key) == FirstIn({ i \in Indices(c) : c[i].key = key })

\* cached && (Date.now() - cached.timestamp) < CACHE_TTL_MS
CacheHit(c, key, t) ==
    CacheGet(c, key) # 0 /\ (t - c[CacheGet(c, key)].timestamp) < CACHE_TTL_MS

\* cache.set(key, value): a key already in the Map keeps its place
CacheSet(c, key, value) ==
    LET pos   == CacheGet(c, key)
        entry == [ key |-> key, data |-> value.data, timestamp |-> value.timestamp,
                   written |-> value.written ]
    IN  IF pos # 0 THEN [ c EXCEPT ![pos] = entry ] ELSE Append(c, entry)

\* the store at the end of buildDependencyList; written is the number of the
\* call that stores, kept with the entry to tell the order of the writes
CacheStore(c, key, result, t, written) ==
    LET evicted == IF Len(c) >= CACHE_MAX_ENTRIES THEN Tail(c) ELSE c
    IN  CacheSet(evicted, key, [ data |-> result, timestamp |-> t, written |-> written ])

\* the call number of the entry the store removes, 0 when it removes none
Evicted(c) == IF Len(c) >= CACHE_MAX_ENTRIES THEN Head(c).written ELSE 0

\* ---- buildRecipeTree ----

\* recipes.filter(r => (r.result?.count || 1) <= 1), then pickBestRecipe;
\* <<>> stands for null
CraftingRecipes(recipes) ==
    SelectSeq(recipes, LAMBDA r : ~((IF r.count = 0 THEN 1 ELSE r.count) > 1))

\* the ingredients expand() works with, <<>> when there are none
ExpandIngredients(kb, key) ==
    LET item     == ItemsByName(key)
        crafting == CraftingRecipes(kb[item])
    IN  IF crafting # <<>> THEN normaliseIngredients(pickBestRecipe(crafting))
        ELSE SmithingIngredients(key)

\* a node of the tree.  unfinished marks a call of expand() that the model
\* did not follow because MaxExpandDepth calls were already open above it
Node(name, quantity, computedRequired, raw, children) ==
    [ name |-> name, quantity |-> quantity, computedRequired |-> computedRequired,
      raw |-> raw, children |-> children, unfinished |-> FALSE ]

Unfinished(name, quantity, computedRequired) ==
    [ Node(name, quantity, computedRequired, FALSE, <<>>) EXCEPT !.unfinished = TRUE ]

\* mutant: the visited set is never consulted
OnPath_Mut(visited, key) == FALSE

\* visited.has(key)
OnPath(visited, key) == key \in visited

\* mutant: one visited set for the whole tree, holding every item
NextVisited_Mut(visited, key) == visited \cup {key} \cup { McItemNames[i] : i \in Indices(McItemNames) }

\* nextVisited = new Set(visited); nextVisited.add(key)
NextVisited(visited, key) == visited \cup {key}

\* mutant: the children listed at the depth limit carry the per-recipe
\* quantity only
LimitChild_Mut(ing, computedRequired) ==
    Node(ing.name, ing.quantity, ing.quantity, TRUE, <<>>)

\* a child listed at the depth limit
LimitChild(ing, computedRequired) ==
    Node(ing.name, ing.quantity, computedRequired * ing.quantity, TRUE, <<>>)

RECURSIVE expand(_, _, _, _, _, _, _, _)
expand(kb, depthLimit, open, name, perRecipeQty, parentScaled, depth, visited) ==
    LET key              == LowerTrim(name)
        computedRequired == parentScaled * perRecipeQty
        ingredients      == ExpandIngredients(kb, key)
    IN  IF open >= MaxExpandDepth THEN Unfinished(name, perRecipeQty, computedRequired)
        ELSE IF OnPath(visited, key)
        THEN Node(name, perRecipeQty, computedRequired, TRUE, <<>>)
        ELSE IF ItemsByName(key) = 0
        THEN Node(name, perRecipeQty, computedRequired, TRUE, <<>>)
        ELSE IF ingredients = <<>>
        THEN Node(name, perRecipeQty, computedRequired, TRUE, <<>>)
        ELSE IF depth >= depthLimit
        THEN Node(name, perRecipeQty, computedRequired, FALSE,
                  [ i \in Indices(ingredients) |-> LimitChild(ingredients[i], computedRequired) ])
        ELSE Node(name, perRecipeQty, computedRequired, FALSE,
                  [ i \in Indices(ingredients) |->
                      expand(kb, depthLimit, open + 1, ingredients[i].name,
                             ingredients[i].quantity, computedRequired, depth + 1,
                             NextVisited(visited, key)) ])

NoNode == Node("", 0, 0, TRUE, <<>>)

\* what buildRecipeTree returns: null or the root node
buildRecipeTree(kb, itemName, depthLimit, rootQuantity) ==
    LET nameLower == LowerTrim(itemName)
    IN  IF ItemsByName(nameLower) = 0
        THEN [ isNull |-> TRUE, tree |-> NoNode ]
        ELSE [ isNull |-> FALSE,
               tree |-> expand(kb, depthLimit, 0, nameLower, rootQuantity, 1, 0, {}) ]

\* ---- the state of the module ----

\* enabled: the helper was not disabled when the call was made
NoResolverOut ==
    [ op |-> "none", enabled |-> FALSE, item |-> "", depthLimit |-> 0, maxNodes |-> 0, rootQuantity |-> 0,
      isNull |-> TRUE, list |-> <<>>, truncated |-> FALSE, tree |-> NoNode,
      hit |-> FALSE, visits |-> <<>>, stored |-> FALSE, evicted |-> 0 ]

\* the resolver is not part of the behaviour
RecipesOff ==
    /\ mcData = <<>>
    /\ disabled = TRUE
    /\ cache = <<>>
    /\ now = 0
    /\ ncalls = 0
    /\ mOut = NoResolverOut

NoProgress == [ totalRequired |-> 0, totalCollected |-> 0, percent |-> 0 ]

\* prevPercent: the percent of the call before the last one, -1 when there
\* was none
NoHelperOut ==
    [ items |-> <<>>, refs |-> <<>>, progress |-> NoProgress, prevPercent |-> -1,
      bottlenecks |-> <<>>, topN |-> 0 ]

Init ==
    /\ \E raw \in RawPlans : items = CreateProject(raw)
    /\ contributions = <<>>
    /\ events = <<CreateEvent>>
    /\ planVersions = <<>>
    /\ transactionsAvailable \in BOOLEAN
    /\ pc = [p \in Calls |-> "idle"]
    /\ req = [p \in Calls |-> [itemName |-> "", quantity |-> 0]]
    /\ loc = [p \in Calls |-> NoLoc]
    /\ resp = [p \in Calls |-> NoResp]
    /\ wrote = [p \in Calls |-> FALSE]
    /\ hIn = <<>>
    /\ hOut = NoHelperOut
    /\ hpc = "off"
    /\ heap = <<>>
    /\ RecipesOff

Next ==
    \/ \E p \in Calls, r \in Requests : Start(p, r.itemName, r.quantity)
    \/ \E p \in Calls : TxRead(p)
    \/ \E p \in Calls : TxWrite(p)
    \/ \E p \in Calls, ok \in BOOLEAN : PostCommit(p, ok)
    \/ \E p \in Calls : Fallback(p)
    \/ \E p \in Calls : Recheck(p)

Spec == Init /\ [][Next]_vars

----------------------------------------------------------------------------
(* SpecHelpers: the pure helpers of projectHelpers.js on bounded projects. *)
(* The stored quantityCollected may be anything from 0 to beyond the       *)
(* required quantity, and the stored status is the one set at creation.    *)

\* the topN handed to detectBottlenecks: none, fewer than the items, the
\* default 3
TopNs == 0..MaxTopN

\* the dependency lists of a project handed to the helpers: none, another
\* item, the item itself, a name that is no item of the project
HelperDepChoices ==
    { <<>>, <<" IRON_INGOT">>, <<"COBBLESTONE ">>, <<"COBBLESTONE ", "Ghost">> }

HelperItems(i) ==
    { [ id |-> i, name |-> ItemNames[i], quantityRequired |-> r, quantityCollected |-> c,
        dependencies |-> d, status |-> st ]
      : r \in 1..MaxRequired, c \in 0..(MaxRequired + 1), d \in HelperDepChoices,
        st \in {"pending", "blocked"} }

HelperProjects ==
    UNION { { f \in [1..n -> UNION { HelperItems(i) : i \in 1..n }]
                : \A i \in 1..n : f[i] \in HelperItems(i) }
            : n \in Indices(ItemNames) }

HelperInit ==
    /\ items = <<>>
    /\ contributions = <<>>
    /\ events = <<>>
    /\ planVersions = <<>>
    /\ transactionsAvailable = FALSE
    /\ pc = [p \in Calls |-> "off"]
    /\ req = [p \in Calls |-> [itemName |-> "", quantity |-> 0]]
    /\ loc = [p \in Calls |-> NoLoc]
    /\ resp = [p \in Calls |-> NoResp]
    /\ wrote = [p \in Calls |-> FALSE]
    /\ hIn \in HelperProjects
    /\ hOut = NoHelperOut
    /\ hpc = "ready"
    /\ heap = hIn
    /\ RecipesOff

\* computeItemStatuses(project): the statuses are written into the objects
\* that _cloneItems returned, and the returned project holds those objects
HComputeItemStatuses ==
    /\ hpc = "ready"
    /\ LET cloned == _cloneItems(heap, InputRefs(hIn))
           after  == AssignStatuses(cloned.heap, cloned.refs)
       IN  /\ heap' = after
           /\ hOut' = [ hOut EXCEPT !.items = Deref(after, cloned.refs),
                                    !.refs  = cloned.refs ]
    /\ hpc' = "statuses"
    /\ UNCHANGED <<docVars, transactionsAvailable, planVersions, pc, req, loc, resp, wrote, recipeVars, hIn>>

\* computeProgress(project)
HComputeProgress ==
    /\ hpc = "ready"
    /\ hOut' = [ hOut EXCEPT !.progress = computeProgress(hIn) ]
    /\ hpc' = "progress"
    /\ UNCHANGED <<docVars, transactionsAvailable, planVersions, pc, req, loc, resp, wrote, recipeVars, hIn, heap>>

\* one item's quantityCollected is raised to c, every quantityRequired stays,
\* and computeProgress is called again
HRaiseCollected(i, c) ==
    /\ hpc = "progress"
    /\ i \in Indices(hIn)
    /\ c > hIn[i].quantityCollected
    /\ hIn' = [ hIn EXCEPT ![i].quantityCollected = c ]
    /\ heap' = hIn'
    /\ hOut' = [ hOut EXCEPT !.progress = computeProgress(hIn'),
                             !.prevPercent = hOut.progress.percent ]
    /\ UNCHANGED <<docVars, transactionsAvailable, planVersions, pc, req, loc, resp, wrote, recipeVars, hpc>>

\* detectBottlenecks(project, topN)
HDetectBottlenecks(topN) ==
    /\ hpc = "ready"
    /\ hOut' = [ hOut EXCEPT !.bottlenecks = detectBottlenecks(hIn, topN),
                             !.topN = topN ]
    /\ hpc' = "bottlenecks"
    /\ UNCHANGED <<docVars, transactionsAvailable, planVersions, pc, req, loc, resp, wrote, recipeVars, hIn, heap>>

HelperNext ==
    \/ HComputeItemStatuses
    \/ HComputeProgress
    \/ \E i \in Indices(ItemNames), c \in 1..(MaxRequired + 1) : HRaiseCollected(i, c)
    \/ \E topN \in TopNs : HDetectBottlenecks(topN)

SpecHelpers == HelperInit /\ [][HelperNext]_vars

\* computeProgress on projects with large quantities.  The schema sets no
\* upper limit on quantityRequired; from 2000 on, one unit is no more than
\* half a tenth of a percent
ProgressRequired == { 1, 2000 }
ProgressCollected == { 0, 1, 1999, 2000, 2001 }

ProgressItems(i) ==
    { [ id |-> i, name |-> ItemNames[i], quantityRequired |-> r, quantityCollected |-> c,
        dependencies |-> <<>>, status |-> "pending" ]
      : r \in ProgressRequired, c \in ProgressCollected }

ProgressProjects ==
    UNION { { f \in [1..n -> UNION { ProgressItems(i) : i \in 1..n }]
                : \A i \in 1..n : f[i] \in ProgressItems(i) }
            : n \in Indices(ItemNames) }

ProgressInit ==
    /\ items = <<>>
    /\ contributions = <<>>
    /\ events = <<>>
    /\ planVersions = <<>>
    /\ transactionsAvailable = FALSE
    /\ pc = [p \in Calls |-> "off"]
    /\ req = [p \in Calls |-> [itemName |-> "", quantity |-> 0]]
    /\ loc = [p \in Calls |-> NoLoc]
    /\ resp = [p \in Calls |-> NoResp]
    /\ wrote = [p \in Calls |-> FALSE]
    /\ hIn \in ProgressProjects
    /\ hOut = NoHelperOut
    /\ hpc = "ready"
    /\ heap = hIn
    /\ RecipesOff

ProgressNext ==
    \/ HComputeProgress
    \/ \E i \in Indices(ItemNames), c \in ProgressCollected : HRaiseCollected(i, c)

SpecProgress == ProgressInit /\ [][ProgressNext]_vars

----------------------------------------------------------------------------
(* SpecResolver, SpecRecipeTree: the exported functions of utils/minecraft.js *)
(* over bounded knowledge bases.  mcData holds the data minecraft-data     *)
(* delivers; the helper is disabled until initMinecraft has succeeded.     *)

\* finalItem / itemName as the caller writes it
ResolverItems == { "Diamond_Sword ", "netherite_sword", "Unknown_Item" }

\* the knowledge bases buildDependencyList is run on.  It does not read
\* result.count, so of the knowledge bases that differ in it only one is
\* kept; recipe cycles are those through two items
ResolverKnowledgeBases ==
    { kb \in KnowledgeBases :
        \A i \in Indices(McItemNames) : \A k \in Indices(kb[i]) :
            /\ kb[i][k].count = 1
            /\ \A c \in Indices(kb[i][k].cells) : kb[i][k].cells[c] # i }

\* options.depthLimit and options.maxNodes of buildDependencyList
DepthLimits == { 0, 1 }
MaxNodesChoices == { 0, 1, 200 }

\* options.depthLimit and options.rootQuantity of buildRecipeTree; 100 is a
\* depth limit no path of the model reaches
TreeDepthLimits == { 0, 1, 100 }
RootQuantities == { 1, 3 }

RecipeInit(knowledgeBases) ==
    /\ items = <<>>
    /\ contributions = <<>>
    /\ events = <<>>
    /\ planVersions = <<>>
    /\ transactionsAvailable = FALSE
    /\ pc = [p \in Calls |-> "off"]
    /\ req = [p \in Calls |-> [itemName |-> "", quantity |-> 0]]
    /\ loc = [p \in Calls |-> NoLoc]
    /\ resp = [p \in Calls |-> NoResp]
    /\ wrote = [p \in Calls |-> FALSE]
    /\ hIn = <<>>
    /\ hOut = NoHelperOut
    /\ hpc = "off"
    /\ heap = <<>>
    /\ mcData \in knowledgeBases
    /\ disabled = TRUE
    /\ cache = <<>>
    /\ now = 0
    /\ ncalls = 0
    /\ mOut = NoResolverOut

\* initMinecraft() succeeding; a failed attempt leaves disabled = true
InitMinecraft ==
    /\ disabled = TRUE
    /\ disabled' = FALSE
    /\ UNCHANGED <<docVars, transactionsAvailable, planVersions, pc, req, loc, resp, wrote, helperVars,
                   mcData, cache, now, ncalls, mOut>>

\* time passes
Tick ==
    /\ now < MaxTicks * CACHE_TTL_MS
    /\ now' = now + CACHE_TTL_MS
    /\ UNCHANGED <<docVars, transactionsAvailable, planVersions, pc, req, loc, resp, wrote, helperVars,
                   mcData, disabled, cache, ncalls, mOut>>

\* one call of buildDependencyList(finalItem, { depthLimit, maxNodes }); mOut
\* records with the result whether it came from the cache, the nodes the
\* traversal visited and what the store did
DependencyListCall(finalItem, depthLimit, maxNodes) ==
    /\ ncalls' = ncalls + 1
    /\ LET cacheKey == CacheKey(finalItem, depthLimit)
           hit      == ~disabled /\ CacheHit(cache, cacheKey, now)
           computed == IF disabled \/ hit THEN [ result |-> Null, visits |-> <<>> ]
                       ELSE Resolve(mcData, finalItem, depthLimit, maxNodes)
           result   == IF hit THEN cache[CacheGet(cache, cacheKey)].data
                       ELSE computed.result
           stored   == ~(disabled \/ hit \/ result.isNull)
       IN  /\ cache' = IF stored
                       THEN CacheStore(cache, cacheKey, result, now, ncalls + 1)
                       ELSE cache
           /\ mOut' = [ NoResolverOut EXCEPT
                          !.op = "list", !.enabled = ~disabled, !.item = finalItem, !.depthLimit = depthLimit,
                          !.maxNodes = maxNodes, !.isNull = result.isNull,
                          !.list = result.list, !.truncated = result.truncated,
                          !.hit = hit, !.visits = computed.visits, !.stored = stored,
                          !.evicted = IF stored THEN Evicted(cache) ELSE 0 ]
    /\ UNCHANGED <<docVars, transactionsAvailable, planVersions, pc, req, loc, resp, wrote, helperVars,
                   mcData, disabled, now>>

\* buildDependencyList(finalItem, { depthLimit, maxNodes })
BuildDependencyList(finalItem, depthLimit, maxNodes) ==
    /\ ncalls < MaxResolverCalls
    /\ DependencyListCall(finalItem, depthLimit, maxNodes)

ResolverNext ==
    \/ InitMinecraft
    \/ Tick
    \/ \E finalItem \in ResolverItems, depthLimit \in DepthLimits, maxNodes \in MaxNodesChoices :
          BuildDependencyList(finalItem, depthLimit, maxNodes)

ResolverInit == RecipeInit(ResolverKnowledgeBases)

SpecResolver == ResolverInit /\ [][ResolverNext]_vars

\* buildDependencyList with depth limits that let the traversal go below the
\* root's ingredients, and budgets that end it early or never
ExpansionDepthLimits == { 1, 2 }
ExpansionBudgets == { 2, DEFAULT_MAX_NODES }

ExpansionNext ==
    \/ InitMinecraft
    \/ Tick
    \/ \E finalItem \in ResolverItems, depthLimit \in ExpansionDepthLimits,
          maxNodes \in ExpansionBudgets :
          BuildDependencyList(finalItem, depthLimit, maxNodes)

SpecExpansion == ResolverInit /\ [][ExpansionNext]_vars

\* the calls that fill the cache: two roots with a recipe, each under two
\* depth limits, make four cache keys; the budget is the default one
CacheItems == { "Diamond_Sword ", "netherite_sword" }

\* knowledge bases in which only the sword has an indexed recipe
CacheKnowledgeBases ==
    { kb \in ResolverKnowledgeBases : kb[1] # <<>> /\ kb[2] = <<>> /\ kb[3] = <<>> }

\* buildDependencyList(finalItem, { depthLimit })
CachedCall(finalItem, depthLimit) ==
    /\ ncalls < MaxCacheCalls
    /\ DependencyListCall(finalItem, depthLimit, DEFAULT_MAX_NODES)

CacheNext ==
    \/ InitMinecraft
    \/ Tick
    \/ \E finalItem \in CacheItems, depthLimit \in DepthLimits :
          CachedCall(finalItem, depthLimit)

CacheInit == RecipeInit(CacheKnowledgeBases)

SpecCache == CacheInit /\ [][CacheNext]_vars

\* buildRecipeTree(itemName, { depthLimit, rootQuantity })
BuildRecipeTree(itemName, depthLimit, rootQuantity) ==
    /\ LET result == IF disabled THEN [ isNull |-> TRUE, tree |-> NoNode ]
                     ELSE buildRecipeTree(mcData, itemName, depthLimit, rootQuantity)
       IN  mOut' = [ NoResolverOut EXCEPT
                       !.op = "tree", !.enabled = ~disabled, !.item = itemName, !.depthLimit = depthLimit,
                       !.rootQuantity = rootQuantity, !.isNull = result.isNull,
                       !.tree = result.tree ]
    /\ UNCHANGED <<docVars, transactionsAvailable, planVersions, pc, req, loc, resp, wrote, helperVars,
                   mcData, disabled, cache, now, ncalls>>

RecipeTreeNext ==
    \/ InitMinecraft
    \/ \E itemName \in ResolverItems, depthLimit \in TreeDepthLimits,
          rootQuantity \in RootQuantities :
          BuildRecipeTree(itemName, depthLimit, rootQuantity)

RecipeTreeInit == RecipeInit(KnowledgeBases)

SpecRecipeTree == RecipeTreeInit /\ [][RecipeTreeNext]_vars

-----------------------------------------------------------------------------
(* POST /api/projects, PUT /:id, POST /:id/update-plan,
   POST /:id/restore-plan/:version: the operations that write a plan *)

\* req.body.items: one item, two items with different names, two items whose
\* names differ in case and blanks only; and three bodies sanitizeItems
\* refuses
PlanNames == { <<"Cobblestone">>, <<"Cobblestone", "Iron_Ingot">>, <<"Cobblestone", " cobblestone ">> }

PlanBodies ==
    { [ i \in Indices(names) |->
          [ name |-> names[i],
            quantityRequired |-> IF i = 1 THEN r ELSE 1,
            dependencies |-> IF i = 1 THEN <<>> ELSE d ] ]
      : names \in PlanNames, r \in {1, MaxRequired}, d \in { <<>>, <<"COBBLESTONE ">> } }
    \cup { <<>>,
           << [ name |-> "  ", quantityRequired |-> 1, dependencies |-> <<>> ] >>,
           << [ name |-> "Cobblestone", quantityRequired |-> 0, dependencies |-> <<>> ] >> }

\* sanitizeItems returns an error
SanitizeError(raw) ==
    \/ raw = <<>>
    \/ \E i \in Indices(raw) : Trim(raw[i].name) = "" \/ raw[i].quantityRequired < 1

\* project.currentPlanVersion || 1: 1 at creation, raised by one with every
\* snapshot pushed
CurrentPlanVersion == Len(planVersions) + 1

PlanUpdateEvent == [ type |-> "plan_update", itemName |-> "", quantity |-> 0 ]

\* planVersions.push({ version, items: project.items.map(toObject) })
PushSnapshot == Append(planVersions, [ version |-> CurrentPlanVersion, items |-> items ])

\* the items of a snapshot as restore-plan stores them again
RestoredItems(snapshotItems) ==
    [ i \in Indices(snapshotItems) |->
        [ id |-> i,
          name |-> snapshotItems[i].name,
          quantityRequired |-> snapshotItems[i].quantityRequired,
          quantityCollected |-> 0,
          dependencies |-> snapshotItems[i].dependencies,
          status |-> "pending" ] ]

\* the project a POST /api/projects has stored
PlanInit ==
    /\ \E raw \in PlanBodies : ~SanitizeError(raw) /\ items = CreateProject(raw)
    /\ contributions = <<>>
    /\ events = <<CreateEvent>>
    /\ planVersions = <<>>
    /\ transactionsAvailable = FALSE
    /\ pc = [p \in Calls |-> "off"]
    /\ req = [p \in Calls |-> [itemName |-> "", quantity |-> 0]]
    /\ loc = [p \in Calls |-> NoLoc]
    /\ resp = [p \in Calls |-> NoResp]
    /\ wrote = [p \in Calls |-> FALSE]
    /\ hIn = <<>>
    /\ hOut = NoHelperOut
    /\ hpc = "off"
    /\ heap = <<>>
    /\ RecipesOff

\* PUT /:id with items in the body, by a member
UpdateProject(raw) ==
    /\ ~SanitizeError(raw)
    /\ items' = computeItemStatuses(sanitizeItems(raw))
    /\ UNCHANGED <<contributions, events, planVersions, transactionsAvailable, pc, req, loc,
                   resp, wrote, helperVars, recipeVars>>

\* POST /:id/update-plan, by the owner or a planner
UpdatePlan(raw) ==
    /\ Len(planVersions) < MaxPlanVersions
    /\ ~SanitizeError(raw)
    /\ planVersions' = PushSnapshot
    /\ items' = computeItemStatuses(sanitizeItems(raw))
    /\ events' = TrimEvents(Append(events, PlanUpdateEvent))
    /\ UNCHANGED <<contributions, transactionsAvailable, pc, req, loc, resp, wrote,
                   helperVars, recipeVars>>

\* POST /:id/restore-plan/:version, by the owner; an unknown version is
\* answered 404 and nothing is written
RestorePlan(targetVersion) ==
    /\ Len(planVersions) < MaxPlanVersions
    /\ \E k \in Indices(planVersions) : planVersions[k].version = targetVersion
    /\ LET snapshot == planVersions[FirstIn({ k \in Indices(planVersions) :
                                                 planVersions[k].version = targetVersion })]
       IN  items' = computeItemStatuses(RestoredItems(snapshot.items))
    /\ planVersions' = PushSnapshot
    /\ events' = TrimEvents(Append(events, PlanUpdateEvent))
    /\ UNCHANGED <<contributions, transactionsAvailable, pc, req, loc, resp, wrote,
                   helperVars, recipeVars>>

PlanNext ==
    \/ \E raw \in PlanBodies : UpdateProject(raw)
    \/ \E raw \in PlanBodies : UpdatePlan(raw)
    \/ \E targetVersion \in 1..MaxPlanVersions : RestorePlan(targetVersion)

SpecPlans == PlanInit /\ [][PlanNext]_vars

-----------------------------------------------------------------------------
(* POST /:id/contribute called again and again: one contributor on a replica
   set, each call made after the one before it was answered *)

\* the dependencies of the two items; every name is that of an item of the
\* project.  The first item may list itself, and the two may list each other
LiveDepChoices ==
    << { <<>>, <<"Cobblestone">>, <<" IRON_INGOT">> },
       { <<>>, <<"COBBLESTONE ">> } >>

LivePlans ==
    { raw \in
        UNION { { [ i \in 1..n |->
                      [ name |-> ItemNames[i], quantityRequired |-> r[i], dependencies |-> d[i] ] ]
                  : r \in [1..n -> 1..MaxRequired],
                    d \in { f \in [1..n -> UNION { LiveDepChoices[i] : i \in 1..n }]
                               : \A i \in 1..n : f[i] \in LiveDepChoices[i] } }
                : n \in Indices(ItemNames) } :
        \A i \in Indices(raw) : \A k \in Indices(raw[i].dependencies) :
            \E j \in Indices(raw) :
                LowerTrim(raw[j].name) = LowerTrim(raw[i].dependencies[k]) }

\* req.body of the calls: an item of the plan and a quantity
LiveRequests ==
    { [itemName |-> n, quantity |-> q] : n \in {"Cobblestone", " IRON_INGOT"}, q \in {1, MaxQty} }

\* the contributor
Caller == 1

LiveInit ==
    /\ \E raw \in LivePlans : items = CreateProject(raw)
    /\ contributions = <<>>
    /\ events = <<CreateEvent>>
    /\ planVersions = <<>>
    /\ transactionsAvailable = TRUE
    /\ pc = [p \in Calls |-> "idle"]
    /\ req = [p \in Calls |-> [itemName |-> "", quantity |-> 0]]
    /\ loc = [p \in Calls |-> NoLoc]
    /\ resp = [p \in Calls |-> NoResp]
    /\ wrote = [p \in Calls |-> FALSE]
    /\ hIn = <<>>
    /\ hOut = NoHelperOut
    /\ hpc = "off"
    /\ heap = <<>>
    /\ RecipesOff

\* the call was answered; the contributor is ready for the next one
CallAgain(p) ==
    /\ pc[p] = "done"
    /\ pc' = [pc EXCEPT ![p] = "idle"]
    /\ req' = [req EXCEPT ![p] = [itemName |-> "", quantity |-> 0]]
    /\ loc' = [loc EXCEPT ![p] = NoLoc]
    /\ resp' = [resp EXCEPT ![p] = NoResp]
    /\ wrote' = [wrote EXCEPT ![p] = FALSE]
    /\ UNCHANGED <<docVars, transactionsAvailable, planVersions, helperVars, recipeVars>>

\* a call on item i while it is not completed
CallOn(i) ==
    /\ i \in Indices(items)
    /\ ~IsComplete(items[i])
    /\ \E r \in LiveRequests :
          /\ FindItem(items, LowerTrim(r.itemName)) = i
          /\ Start(Caller, r.itemName, r.quantity)

LiveNext ==
    \/ \E r \in LiveRequests : Start(Caller, r.itemName, r.quantity)
    \/ TxRead(Caller)
    \/ TxWrite(Caller)
    \/ \E ok \in BOOLEAN : PostCommit(Caller, ok)
    \/ CallAgain(Caller)

\* every call is answered, and the contributor keeps calling on every item
\* that is not completed
LiveFairness ==
    /\ WF_vars(TxRead(Caller))
    /\ WF_vars(TxWrite(Caller))
    /\ WF_vars(\E ok \in BOOLEAN : PostCommit(Caller, ok))
    /\ WF_vars(CallAgain(Caller))
    /\ \A i \in Indices(ItemNames) : SF_vars(CallOn(i))

SpecLive == LiveInit /\ [][LiveNext]_vars /\ LiveFairness


----------------------------------------------------------------------------
(* Properties of the contribution endpoint *)

Done(p) == pc[p] = "done"

\* the call passed validation, lookup, dependency and completeness checks
\* of its initial read
Admitted(p) == loc[p].targetId # 0

\* the contribution records logged for the item named name
RecordsOf(name) ==
    SelectSeq(contributions, LAMBDA c : LowerTrim(c.itemName) = LowerTrim(name))

RECURSIVE SumQuantity(_)
SumQuantity(cs) == IF cs = <<>> THEN 0 ELSE Head(cs).quantity + SumQuantity(Tail(cs))

CompletedEventsOf(name) ==
    SelectSeq(events, LAMBDA e : e.type = "item_completed"
                                 /\ LowerTrim(e.itemName) = LowerTrim(name))

\* C1: the stored quantityCollected of an item never exceeds its
\* quantityRequired, whichever persistence strategy the calls end up using.
C1_NeverExceedsRequired ==
    \A i \in Indices(items) : items[i].quantityCollected <= items[i].quantityRequired

\* C2: for every item the quantities of the contribution records logged for
\* it add up to its stored quantityCollected.
C2_LogSumsToCollected ==
    \A i \in Indices(items) :
        SumQuantity(RecordsOf(items[i].name)) = items[i].quantityCollected

\* C3: when all NumCalls calls asked for quantity 1 of one item that has no
\* dependency to wait for, with quantityRequired = R < NumCalls and none of
\* them lost its response to a failed read, exactly R succeeded, R records
\* are logged, quantityCollected = R and the others were answered
\* "already complete".
C3_ExactlyRequiredSucceed ==
    \A n \in {"Cobblestone", " IRON_INGOT"} :
        LET t == FindItem(items, LowerTrim(n))
            okCalls == { p \in Calls : resp[p].outcome = "success" }
        IN  ( /\ \A p \in Calls : Done(p) /\ req[p] = [itemName |-> n, quantity |-> 1]
              /\ \A p \in Calls : resp[p].outcome # "server_error"
              /\ t # 0
              /\ items[t].dependencies = <<>>
              /\ items[t].quantityRequired < NumCalls )
            => /\ Cardinality(okCalls) = items[t].quantityRequired
               /\ Len(RecordsOf(n)) = items[t].quantityRequired
               /\ items[t].quantityCollected = items[t].quantityRequired
               /\ \A p \in Calls \ okCalls : resp[p].outcome = "already_complete"

\* the dependency names of the item at t whose lowercased, trimmed form is
\* not the name of an item with collected >= required
NotCompletedDeps(t) ==
    SelectSeq(items[t].dependencies,
              LAMBDA dep : ~ \E j \in Indices(items) :
                                 /\ LowerTrim(items[j].name) = LowerTrim(dep)
                                 /\ items[j].quantityCollected >= items[j].quantityRequired)

\* call p takes the steps of its initial read, with a valid request that
\* names an item of the project
ReadsItem(p) ==
    /\ pc[p] = "idle" /\ pc'[p] # "idle"
    /\ Trim(req'[p].itemName) # "" /\ req'[p].quantity >= 1
    /\ FindItem(items, LowerTrim(req'[p].itemName)) # 0

TargetOf(p) == FindItem(items, LowerTrim(req[p].itemName))

\* C5: when a call's update is applied while q exceeds the item's remaining
\* quantity, the item ends at quantityCollected = quantityRequired, the
\* logged quantity is the remaining one, and a response given with the
\* update reports acceptedQuantity = remaining and the rest as remainder.
C5_CappedAtRemaining ==
    [][ \A p \in Calls :
          (~ wrote[p] /\ wrote'[p]) =>
            LET t == TargetOf(p)
                remaining == items[t].quantityRequired - items[t].quantityCollected
            IN  req[p].quantity > remaining =>
                  /\ items'[t].quantityCollected = items'[t].quantityRequired
                  /\ contributions'[Len(contributions')].quantity = remaining
                  /\ pc'[p] = "done" =>
                       /\ resp'[p].outcome = "success"
                       /\ resp'[p].acceptedQuantity = remaining
                       /\ resp'[p].remainderRequested = req[p].quantity - remaining
      ]_vars

\* call p reads the project and finds its item with collected >= required:
\* at the initial read (request valid, dependencies met), at the fresh read
\* in the transaction, or at the re-read after a conditional write that
\* matched nothing
SeesComplete(p) ==
    /\ pc'[p] # pc[p]
    /\ \/ /\ ReadsItem(p)
          /\ LET t == FindItem(items, LowerTrim(req'[p].itemName))
             IN  /\ NotCompletedDeps(t) = <<>>
                 /\ items[t].quantityCollected >= items[t].quantityRequired
       \/ /\ pc[p] = "tx" /\ transactionsAvailable
          /\ TargetOf(p) # 0
          /\ items[TargetOf(p)].quantityCollected >= items[TargetOf(p)].quantityRequired
       \/ /\ pc[p] = "recheck"
          /\ TargetOf(p) # 0
          /\ items[TargetOf(p)].quantityCollected >= items[TargetOf(p)].quantityRequired

\* C6: a call that sees its item already complete is refused with the
\* already-complete conflict, acceptedQuantity 0, and adds no record.
C6_AlreadyCompleteRejected ==
    [][ \A p \in Calls :
          SeesComplete(p) =>
            /\ pc'[p] = "done"
            /\ resp'[p].outcome = "already_complete"
            /\ resp'[p].acceptedQuantity = 0
            /\ contributions' = contributions /\ items' = items
            /\ ~ wrote'[p]
      ]_vars

\* C6 witness: a call admitted on its initial read was later answered
\* "already complete" (on the fresh read or on the re-read)
C6_Witness ==
    \E p \in Calls :
        Done(p) /\ Admitted(p) /\ resp[p].outcome = "already_complete" /\ ~ wrote[p]

C8_OneCompletedEventPerItem ==
    \A i \in Indices(items) :
        Len(CompletedEventsOf(items[i].name)) =
            IF items[i].quantityCollected >= items[i].quantityRequired THEN 1 ELSE 0

\* C9: when two calls on different items were both admitted, none lost its
\* response to a failed read and no other call wrote, both succeeded and each
\* item has grown from 0 by its own call's accepted quantity.
C9_DifferentItemsIndependent ==
    \A p \in Calls, o \in Calls :
        ( /\ p # o /\ Done(p) /\ Done(o)
          /\ Admitted(p) /\ Admitted(o)
          /\ loc[p].targetId # loc[o].targetId
          /\ resp[p].outcome # "server_error" /\ resp[o].outcome # "server_error"
          /\ \A x \in Calls \ {p, o} : ~ wrote[x] )
        => /\ resp[p].outcome = "success"
           /\ items[IndexOfId(items, loc[p].targetId)].quantityCollected
                 = resp[p].acceptedQuantity

----------------------------------------------------------------------------
(* Properties of the helpers *)

\* C10: in the output of computeItemStatuses an item has status "completed"
\* if and only if its quantityCollected >= quantityRequired.
C10_CompletedIffCollected ==
    hpc = "statuses" =>
        /\ Len(hOut.items) = Len(hIn)
        /\ \A i \in Indices(hIn) :
              (hOut.items[i].status = "completed")
                 <=> (hIn[i].quantityCollected >= hIn[i].quantityRequired)

\* C10 witness: an output with a completed and a not completed item
C10_Witness ==
    /\ hpc = "statuses"
    /\ \E i \in Indices(hIn), j \in Indices(hIn) :
          /\ hOut.items[i].status = "completed"
          /\ hOut.items[j].status # "completed"
          /\ hIn[j].quantityCollected = hIn[j].quantityRequired - 1

\* C11: for every item that is not completed, computeItemStatuses gives
\* "blocked" exactly when the dependencies list is non-empty and at least one
\* dependency name (lowercased, trimmed) is not the name of a completed item
\* (a name matching no item counts as unmet); otherwise it gives "pending".
C11_BlockedIffUnmetDependency ==
    hpc = "statuses" =>
        \A i \in Indices(hIn) :
            hIn[i].quantityCollected < hIn[i].quantityRequired =>
                LET deps  == hIn[i].dependencies
                    unmet == { k \in Indices(deps) :
                                 ~\E j \in Indices(hIn) :
                                     /\ hIn[j].quantityCollected >= hIn[j].quantityRequired
                                     /\ LowerTrim(hIn[j].name) = LowerTrim(deps[k]) }
                IN  /\ hOut.items[i].status \in {"blocked", "pending"}
                    /\ (hOut.items[i].status = "blocked") <=> (deps # <<>> /\ unmet # {})

\* C11 witness: an item blocked only by a name that is no item of the
\* project, its other dependency being completed
C11_Witness ==
    /\ hpc = "statuses"
    /\ Len(hIn) = 2
    /\ hIn[2].dependencies = <<"COBBLESTONE ", "Ghost">>
    /\ hIn[1].quantityCollected >= hIn[1].quantityRequired
    /\ hIn[2].quantityCollected < hIn[2].quantityRequired
    /\ hOut.items[2].status = "blocked"
    /\ hOut.items[1].status = "completed"

\* C12: computeItemStatuses does not mutate its input: after the call the
\* objects of the input items array hold what they held before (name,
\* quantities, dependencies, stored status), and the statuses were assigned
\* on objects that are not objects of the input.
C12_InputNotMutated ==
    hpc = "statuses" =>
        /\ \A a \in Indices(hIn) : heap[a] = hIn[a]
        /\ \A i \in Indices(hOut.refs) : hOut.refs[i] \notin Indices(hIn)
        /\ hOut.items = Deref(heap, hOut.refs)

\* C12 witness: the call assigned a status that differs from the stored one
C12_Witness ==
    /\ hpc = "statuses"
    /\ \E i \in Indices(hIn) :
          /\ hOut.items[i].status # hIn[i].status
          /\ hOut.items[i].status = "completed"
    /\ \E i \in Indices(hIn) :
          /\ hIn[i].status = "pending"
          /\ hOut.items[i].status = "blocked"

\* C13: computeProgress(...).percent is monotonically non-decreasing: raising
\* one item's quantityCollected while every quantityRequired stays fixed
\* never lowers percent.
C13_PercentMonotone ==
    [][ ( /\ hpc = "progress"
          /\ hpc' = "progress"
          /\ Len(hIn') = Len(hIn)
          /\ \A i \in Indices(hIn) :
                /\ hIn'[i].quantityRequired = hIn[i].quantityRequired
                /\ hIn'[i].quantityCollected >= hIn[i].quantityCollected )
        => hOut'.progress.percent >= hOut.progress.percent ]_vars

\* C13 witness: after a raise percent has gone up to 100 with an item beyond
\* its required quantity, from a percent between 0 and 100
C13_Witness ==
    /\ hpc = "progress"
    /\ hOut.prevPercent > 0
    /\ hOut.prevPercent < hOut.progress.percent
    /\ hOut.progress.percent = 1000
    /\ \E i \in Indices(hIn) : hIn[i].quantityCollected > hIn[i].quantityRequired

\* the item an entry of detectBottlenecks names
EntryItem(e) == FirstIn({ i \in Indices(hIn) : hIn[i].name = e.name })

\* C14: detectBottlenecks never returns a completed item: every returned
\* entry names an item with quantityCollected < quantityRequired and has
\* remaining = required - collected > 0.
C14_NoCompletedBottleneck ==
    hpc = "bottlenecks" =>
        \A k \in Indices(hOut.bottlenecks) :
            LET e == hOut.bottlenecks[k]
                i == EntryItem(e)
            IN  /\ i # 0
                /\ hIn[i].quantityCollected < hIn[i].quantityRequired
                /\ e.remaining = hIn[i].quantityRequired - hIn[i].quantityCollected
                /\ e.remaining > 0

\* C14 witness: a project with a completed item that others depend on and an
\* incomplete one; only the incomplete one is returned
C14_Witness ==
    /\ hpc = "bottlenecks"
    /\ hOut.topN >= 2
    /\ Len(hIn) = 2
    /\ hIn[1].quantityCollected >= hIn[1].quantityRequired
    /\ hIn[2].dependencies = <<"COBBLESTONE ">>
    /\ Len(hOut.bottlenecks) = 1
    /\ hOut.bottlenecks[1].name = hIn[2].name

\* C15: the blockingCount reported for an item equals the number of other
\* items of the project that list it (case-insensitively) as a dependency:
\* the item's own self-reference is not counted and a dependent item counts
\* once.
C15_BlockingCountOtherItems ==
    hpc = "bottlenecks" =>
        \A k \in Indices(hOut.bottlenecks) :
            LET e == hOut.bottlenecks[k]
                i == EntryItem(e)
            IN  e.blockingCount =
                    Cardinality({ j \in Indices(hIn) \ {i} :
                                    \E d \in Indices(hIn[j].dependencies) :
                                        LowerTrim(hIn[j].dependencies[d]) = LowerTrim(e.name) })

\* a ranks strictly ahead of b: higher blockingCount, or the same
\* blockingCount and higher remaining
StrictlyAhead(a, b) ==
    \/ a.blockingCount > b.blockingCount
    \/ a.blockingCount = b.blockingCount /\ a.remaining > b.remaining

\* C16: detectBottlenecks(items, topN) returns at most topN entries, ordered
\* by blockingCount descending with ties by remaining descending, and no
\* incomplete item left out of the result ranks strictly ahead of a returned
\* one.
C16_TopNInRankOrder ==
    hpc = "bottlenecks" =>
        LET out == hOut.bottlenecks
            leftOut == { i \in Indices(hIn) :
                           /\ hIn[i].quantityCollected < hIn[i].quantityRequired
                           /\ \A k \in Indices(out) : out[k].name # hIn[i].name }
            Rank(i) == [ blockingCount |->
                             Cardinality({ jd \in UNION { { <<j, d>> : d \in Indices(hIn[j].dependencies) }
                                                          : j \in Indices(hIn) } :
                                 LowerTrim(hIn[jd[1]].dependencies[jd[2]]) = LowerTrim(hIn[i].name) }),
                         remaining |-> hIn[i].quantityRequired - hIn[i].quantityCollected ]
        IN  /\ Len(out) <= hOut.topN
            /\ \A k \in Indices(out), l \in Indices(out) :
                  k < l => ~StrictlyAhead(out[l], out[k])
            /\ \A i \in leftOut, k \in Indices(out) : ~StrictlyAhead(Rank(i), out[k])

\* C16 witness: two incomplete items with the same blockingCount, topN = 1,
\* and the second item, having more remaining, is the one returned
C16_Witness ==
    /\ hpc = "bottlenecks"
    /\ hOut.topN = 1
    /\ Len(hIn) = 2
    /\ \A i \in Indices(hIn) : hIn[i].quantityCollected < hIn[i].quantityRequired
    /\ Len(hOut.bottlenecks) = 1
    /\ hOut.bottlenecks[1].name = hIn[2].name
    /\ hOut.bottlenecks[1].blockingCount = 0
    /\ hOut.bottlenecks[1].remaining = 2

(* Properties of the recipe resolver *)

\* the root of the last call, and the cells of the recipe chosen for it: the
\* first shaped variant, else the first variant
RootId == FirstIn({ i \in Indices(McItemNames) : McItemNames[i] = LowerTrim(mOut.item) })

RootHasRecipe ==
    /\ RootId # 0
    /\ mcData[RootId] # <<>> \/ SMITHING_RECIPES(McItemNames[RootId]) # <<>>

RootRecipeIsEmpty ==
    /\ RootId # 0
    /\ mcData[RootId] # <<>>
    /\ LET shaped == { i \in Indices(mcData[RootId]) : mcData[RootId][i].shaped }
           chosen == IF shaped = {} THEN 1 ELSE FirstIn(shaped)
       IN  \A k \in Indices(mcData[RootId][chosen].cells) : mcData[RootId][chosen].cells[k] = 0

\* C17: buildDependencyList returns null, never an empty list, when the root
\* item is unknown or has no indexed recipe; an empty list is returned only
\* when the root's chosen recipe resolves to zero ingredients.
C17_EmptyListOnlyForEmptyRecipe ==
    (mOut.op = "list" /\ mOut.enabled) =>
        /\ ~RootHasRecipe => mOut.isNull
        /\ (~mOut.isNull /\ mOut.list = <<>>) => RootRecipeIsEmpty

\* C17 as amended: null, never an empty list, for a root that is unknown or
\* has no recipe; an empty list that is not flagged truncated only when the
\* root's chosen recipe resolves to zero ingredients.
C17_UntruncatedEmptyListOnlyForEmptyRecipe ==
    (mOut.op = "list" /\ mOut.enabled) =>
        /\ ~RootHasRecipe => mOut.isNull
        /\ (~mOut.isNull /\ mOut.list = <<>> /\ ~mOut.truncated) => RootRecipeIsEmpty

\* C17 witness: the root's only recipe is a grid of empty slots and the call
\* returned an empty list, not null
C17_Witness ==
    /\ mOut.op = "list"
    /\ mOut.enabled
    /\ RootRecipeIsEmpty
    /\ mOut.maxNodes = 200
    /\ ~mOut.isNull
    /\ mOut.list = <<>>
    /\ ~mOut.truncated

RECURSIVE NoUnfinished(_)
NoUnfinished(node) ==
    /\ ~node.unfinished
    /\ \A i \in Indices(node.children) : NoUnfinished(node.children[i])

RECURSIVE RepeatsAreLeaves(_, _)
RepeatsAreLeaves(node, ancestors) ==
    /\ LowerTrim(node.name) \in ancestors => (node.raw /\ node.children = <<>>)
    /\ \A i \in Indices(node.children) :
          RepeatsAreLeaves(node.children[i], ancestors \cup {LowerTrim(node.name)})

\* C18: buildRecipeTree terminates on every knowledge base, one with a recipe
\* cycle included: no call of expand() is left open, and a node whose name
\* already occurs on the path from the root to it is returned with raw = true
\* and no children.
C18_TerminatesCuttingCycles ==
    (mOut.op = "tree" /\ ~mOut.isNull) =>
        /\ NoUnfinished(mOut.tree)
        /\ RepeatsAreLeaves(mOut.tree, {})

\* C18 witness: with a depth limit out of reach, the root reappears below one
\* of its children and is cut there
C18_Witness ==
    /\ mOut.op = "tree"
    /\ ~mOut.isNull
    /\ mOut.depthLimit = 100
    /\ \E i \in Indices(mOut.tree.children) :
          \E j \in Indices(mOut.tree.children[i].children) :
              LET n == mOut.tree.children[i].children[j]
              IN  n.name = mOut.tree.name /\ n.raw /\ n.children = <<>>

RECURSIVE ScaledFromParent(_)
ScaledFromParent(node) ==
    \A i \in Indices(node.children) :
        /\ node.children[i].computedRequired
              = node.computedRequired * node.children[i].quantity
        /\ ScaledFromParent(node.children[i])

\* C19: in every tree returned by buildRecipeTree the root's computedRequired
\* equals rootQuantity and every other node's computedRequired equals its
\* parent's computedRequired times the node's own per-recipe quantity,
\* children listed at the depth limit and cycle-cut nodes included.
C19_QuantitiesScaleDownTheTree ==
    (mOut.op = "tree" /\ ~mOut.isNull) =>
        /\ mOut.tree.computedRequired = mOut.rootQuantity
        /\ ScaledFromParent(mOut.tree)

\* C19 witness: rootQuantity 3, a child needed twice per root and, listed at
\* the depth limit below it, a grandchild needed twice per child: 12
C19_Witness ==
    /\ mOut.op = "tree"
    /\ ~mOut.isNull
    /\ mOut.rootQuantity = 3
    /\ mOut.depthLimit = 1
    /\ \E i \in Indices(mOut.tree.children) :
          /\ mOut.tree.children[i].computedRequired = 6
          /\ \E j \in Indices(mOut.tree.children[i].children) :
                /\ mOut.tree.children[i].children[j].computedRequired = 12
                /\ mOut.tree.children[i].children[j].raw

\* C20: buildDependencyList is reproducible: a call with given (rootItem,
\* depthLimit, maxNodes) returns the list and the truncated flag that the
\* same call returns when no call was made before it.
C20_Reproducible ==
    (mOut.op = "list" /\ mOut.enabled) =>
        LET alone == ResolveList(mcData, mOut.item, mOut.depthLimit, mOut.maxNodes)
        IN  /\ mOut.isNull = alone.isNull
            /\ mOut.list = alone.list
            /\ mOut.truncated = alone.truncated

\* the nodes buildDependencyList visits when the budget is never reached
FullVisits(kb, finalItem, depthLimit) ==
    Resolve(kb, finalItem, depthLimit, DEFAULT_MAX_NODES).visits

\* C21: buildDependencyList visits at most maxNodes ingredient nodes, and the
\* list it returns has truncated = true exactly when the budget was reached
\* with ingredients the traversal would still have visited.
C21_BudgetStopsAndTruncatedIsExact ==
    (mOut.op = "list" /\ mOut.enabled /\ ~mOut.isNull) =>
        /\ Len(mOut.visits) <= mOut.maxNodes
        /\ mOut.truncated <=>
              Len(FullVisits(mcData, mOut.item, mOut.depthLimit)) > mOut.maxNodes

\* the same for the calls that computed their result
C21_ExactWhenComputed ==
    (mOut.op = "list" /\ mOut.enabled /\ ~mOut.isNull /\ ~mOut.hit) =>
        /\ Len(mOut.visits) <= mOut.maxNodes
        /\ Len(mOut.visits) = Min(mOut.maxNodes, Len(FullVisits(mcData, mOut.item, mOut.depthLimit)))
        /\ mOut.truncated <=>
              Len(FullVisits(mcData, mOut.item, mOut.depthLimit)) > mOut.maxNodes

\* the entry of the returned list for an ingredient name
EntryOf(name) == mOut.list[FirstIn({ i \in Indices(mOut.list) : mOut.list[i].name = name })]

\* the visits of the last call to an ingredient name
VisitsOf(name) == { i \in Indices(mOut.visits) : mOut.visits[i].name = name }

\* mcData.recipes[item.id] is a non-empty array
HasIndexedRecipe(name) == ItemsByName(name) # 0 /\ mcData[ItemsByName(name)] # <<>>

\* every expansion of the last call was of an ingredient with an indexed
\* recipe reached at a depth below depthLimit
ExpandedOnlyWithRecipeBelowLimit ==
    \A i \in Indices(mOut.visits) :
        mOut.visits[i].expanded =>
            /\ HasIndexedRecipe(mOut.visits[i].name)
            /\ mOut.visits[i].depth < mOut.depthLimit

\* C22 (as stated): an ingredient is expanded only if it has an indexed recipe
\* and was reached below depthLimit, and every ingredient not expanded, for
\* lack of a recipe or because it sits at the depth limit, has raw = true.
C22_UnexpandedIsRaw ==
    (mOut.op = "list" /\ mOut.enabled /\ ~mOut.isNull /\ ~mOut.hit) =>
        /\ ExpandedOnlyWithRecipeBelowLimit
        /\ \A i \in Indices(mOut.visits) :
              ( /\ \A j \in VisitsOf(mOut.visits[i].name) :
                      /\ ~mOut.visits[j].expanded
                      /\ ~HasIndexedRecipe(mOut.visits[j].name)
                            \/ mOut.visits[j].depth >= mOut.depthLimit )
              => EntryOf(mOut.visits[i].name).raw

\* C22 (amended): an ingredient is expanded only if it has an indexed recipe
\* and was reached below depthLimit, and raw = true marks exactly the listed
\* ingredients that have neither an indexed recipe nor a smithing recipe.
C22_RawIsNoRecipe ==
    (mOut.op = "list" /\ mOut.enabled /\ ~mOut.isNull) =>
        /\ ExpandedOnlyWithRecipeBelowLimit
        /\ \A i \in Indices(mOut.list) :
              mOut.list[i].raw <=>
                  ~( HasIndexedRecipe(mOut.list[i].name)
                     \/ SMITHING_RECIPES(mOut.list[i].name) # <<>> )

\* a call expanded one ingredient and left another, which has a recipe and
\* sits at the depth limit, unexpanded and not raw
C22_Witness ==
    /\ mOut.op = "list" /\ mOut.enabled /\ ~mOut.isNull /\ ~mOut.hit
    /\ \E i \in Indices(mOut.visits) : mOut.visits[i].expanded
    /\ \E i \in Indices(mOut.visits) :
          /\ ~mOut.visits[i].expanded
          /\ mOut.visits[i].depth = mOut.depthLimit
          /\ HasIndexedRecipe(mOut.visits[i].name)
          /\ ~EntryOf(mOut.visits[i].name).raw
    /\ \E i \in Indices(mOut.list) : mOut.list[i].raw

\* the item has ingredients for expand() to work with
HasIngredients(key) ==
    ItemsByName(key) # 0 /\ ExpandIngredients(mcData, key) # <<>>

\* below a node that expand() was called on at the given depth with the given
\* ancestors: an item with ingredients is raw exactly when it is among its
\* ancestors, and otherwise has children
RECURSIVE CutOnlyOnOwnPath(_, _, _)
CutOnlyOnOwnPath(node, ancestors, depth) ==
    LET key == LowerTrim(node.name)
    IN  /\ HasIngredients(key) => (node.raw <=> key \in ancestors)
        /\ (HasIngredients(key) /\ key \notin ancestors) => node.children # <<>>
        /\ (~node.raw /\ depth < mOut.depthLimit) =>
              \A i \in Indices(node.children) :
                  CutOnlyOnOwnPath(node.children[i], ancestors \cup {key}, depth + 1)

\* C23: cycle protection in buildRecipeTree is per path: an item with
\* ingredients is cut off as raw only when it is among its own ancestors;
\* reached anywhere else at or below the depth limit, also in a sibling
\* branch that holds it already, it is returned with its children.
C23_CycleCutIsPerPath ==
    (mOut.op = "tree" /\ ~mOut.isNull) => CutOnlyOnOwnPath(mOut.tree, {}, 0)

\* C23 witness: the item of one child of the root is found again below
\* another child, and in both places it is expanded: not raw, with its
\* children
C23_Witness ==
    /\ mOut.op = "tree"
    /\ ~mOut.isNull
    /\ mOut.depthLimit = 100
    /\ \E i, j \in Indices(mOut.tree.children) :
          /\ i # j
          /\ \E k \in Indices(mOut.tree.children[j].children) :
                LET a == mOut.tree.children[i]
                    b == mOut.tree.children[j].children[k]
                IN  /\ a.name = b.name
                    /\ ~a.raw /\ a.children # <<>>
                    /\ ~b.raw /\ b.children # <<>>

\* C24: the cache never holds more than CACHE_MAX_ENTRIES entries, and the
\* entry a store removes is the one written least recently: every entry left
\* in the cache was written after it.
C24_BoundedAndEvictsLeastRecentlyWritten ==
    /\ Len(cache) <= CACHE_MAX_ENTRIES
    /\ mOut.evicted # 0 =>
          \A i \in Indices(cache) : cache[i].written > mOut.evicted

\* the cache never holds more than CACHE_MAX_ENTRIES entries
C24_Bounded == Len(cache) <= CACHE_MAX_ENTRIES

\* C25: in every stored project, item names are a case-insensitive unique
\* key: no two items have names that are equal after lowercasing and
\* trimming.
C25_ItemNamesUniqueIgnoringCase ==
    \A i, j \in Indices(items) :
        i # j => LowerTrim(items[i].name) # LowerTrim(items[j].name)

\* the item call p targets is complete in the stored document
TargetComplete(p) ==
    LET t == IndexOfId(items, loc[p].targetId)
    IN  t # 0 /\ items[t].quantityCollected >= items[t].quantityRequired

\* C26: the findOneAndUpdate fallback applies its increment only if the
\* targeted item's own stored quantityCollected is below its quantityRequired
\* at the time of the write, whatever the other items hold; when the target
\* is already complete nothing is written and the call returns the
\* already-complete conflict.
C26_FallbackGuardedByTarget ==
    [][ \A p \in Calls :
          /\ (pc[p] = "fallback" /\ pc'[p] # "fallback") =>
               /\ wrote'[p] =>
                    /\ IndexOfId(items, loc[p].targetId) # 0
                    /\ ~TargetComplete(p)
               /\ TargetComplete(p) =>
                    /\ pc'[p] = "recheck"
                    /\ ~wrote'[p]
                    /\ docVars' = docVars
          /\ (pc[p] = "recheck" /\ pc'[p] = "done" /\ TargetComplete(p)) =>
               resp'[p].outcome = "already_complete"
      ]_vars

\* C27: the update of a contribute call, in either strategy, changes the
\* quantityCollected of the targeted item only: every other item's
\* quantityCollected and every item's name, quantityRequired and dependencies
\* are after the write what they were before it.
C27_OnlyTargetCollectedChanges ==
    [][ \A p \in Calls :
          (~ wrote[p] /\ wrote'[p]) =>
            /\ Len(items') = Len(items)
            /\ \A i \in Indices(items) :
                  /\ items'[i].name = items[i].name
                  /\ items'[i].quantityRequired = items[i].quantityRequired
                  /\ items'[i].dependencies = items[i].dependencies
                  /\ items[i].id # loc[p].targetId =>
                        items'[i].quantityCollected = items[i].quantityCollected
      ]_vars

\* C28: starting from a plan with nothing collected, under any interleaving
\* of contribute calls, an item with quantityCollected > 0 has every one of
\* its dependency names matching a completed item of the project.
C28_CollectedOnlyWithCompletedDependencies ==
    \A i \in Indices(items) :
        items[i].quantityCollected > 0 =>
            \A d \in Indices(items[i].dependencies) :
                LET j == FindItem(items, LowerTrim(items[i].dependencies[d]))
                IN  j # 0 /\ items[j].quantityCollected >= items[j].quantityRequired

\* every item of the project is completed
AllCompleted == \A i \in Indices(items) : IsComplete(items[i])

\* C29: when every dependency name is that of an item of the project and the
\* contributors keep calling contribute on every item that is not completed,
\* every item is eventually completed, also with a dependency cycle or an
\* item that lists itself.
C29_EveryItemEventuallyCompleted == <>AllCompleted

\* C30: computeProgress reports a percent from 0 to 100, and 100 only when
\* every item is completed (totalCollected = totalRequired): a project with
\* an item below its required quantity never shows 100.  percent is in
\* tenths, 100 is 1000.
C30_HundredOnlyWhenComplete ==
    hpc = "progress" =>
        /\ hOut.progress.percent >= 0
        /\ hOut.progress.percent <= 1000
        /\ hOut.progress.percent = 1000 =>
              /\ hOut.progress.totalCollected = hOut.progress.totalRequired
              /\ \A i \in Indices(hIn) : IsComplete(hIn[i])

\* percent is from 0 to 100
C30_PercentInRange ==
    hpc = "progress" => hOut.progress.percent >= 0 /\ hOut.progress.percent <= 1000

====
